---- MODULE Spec2Model ----
(***************************************************************************)
(* Model of the cluster dispatcher of the Photoshop MCP server             *)
(* (src/photoshop_mcp_server/cluster/dispatcher.py), of the job            *)
(* cancellation endpoint and of the thumbnail stream of its HTTP server    *)
(* (src/photoshop_mcp_server/server.py and the bridge backends), of a      *)
(* cluster node (src/photoshop_mcp_server/cluster/node.py), of the         *)
(* retries and the script cache of the PowerShell bridge                   *)
(* (src/photoshop_mcp_server/bridge/powershell_backend.py) and of the      *)
(* pending requests of the UXP bridge                                      *)
(* (src/photoshop_mcp_server/bridge/uxp_backend.py).                       *)
(*                                                                         *)
(* The dispatcher is a single asyncio process: every coroutine runs        *)
(* without interruption between two awaits that really suspend, so each    *)
(* action below is the code between two suspension points.                 *)
(*                                                                         *)
(* Time stamps are kept by what the code does with them:                   *)
(*   created_at        an integer of a non-decreasing clock (queue key);   *)
(*   assigned_at, started_at, completed_at                                 *)
(*                     "null" or "set".                                    *)
(* The comparisons of a time stamp with time.time() are inputs of the      *)
(* step that makes them, since any time may pass between two steps: which  *)
(* nodes' last_heartbeat is older than node_timeout (_check_node_health),  *)
(* which jobs' completed_at is older than the retention period             *)
(* (_cleanup_old_jobs), whether a node's last_heartbeat is older than the  *)
(* unhealthy threshold (_cleanup_unhealthy_nodes).                         *)
(* None for assigned_node_id is 0.  The fields that no control decision of *)
(* the modelled code reads are not part of the state: the statistics       *)
(* (completed_jobs, failed_jobs, total_jobs_processed, total_jobs_failed,  *)
(* uptime, latency_history) and a job's result, error_message, progress.   *)
(***************************************************************************)
EXTENDS Integers, Sequences, FiniteSets, Bags, TLC

\* ------------------------------------------------------------------ bounds
MaxNodes == 2
MaxJobs == 2
MaxPriority == 1
MaxTime == 1
MaxConcurrent == 1

\* max_concurrent_jobs of the nodes where the load decides, and of a ClusterNode
MaxLoad == 2

NodeIds == 1..MaxNodes
JobIds == 1..MaxJobs
Priorities == 0..MaxPriority
Times == 0..MaxTime

\* ------------------------------------------------------------------- enums
\* class NodeStatus
NodeStatus == {"unknown", "healthy", "degraded", "unhealthy"}

\* class JobStatus ("none" marks a job id for which no Job object exists yet)
JobStatus == {"queued", "assigned", "running", "completed", "failed", "cancelled"}

Terminal == {"completed", "failed", "cancelled"}

\* class RoutingStrategy (LOWEST_LATENCY reads latency_history, which is not
\* part of the state)
RoutingStrategy == {"least_busy", "round_robin", "random", "capability_based"}

\* ------------------------------------------------------------------- state
VARIABLES
    is_running,         \* ClusterDispatcher.is_running
    started,            \* start() has created the three background tasks
    stop_pc,            \* position of stop(): "idle", "server_stop", "done"
    cleanup_alive,      \* the _cleanup_task coroutine has not ended by an exception
    routing_strategy,   \* config.routing_strategy
    round_robin_index,  \* ClusterDispatcher.round_robin_index
    node_keys,          \* keys of self.nodes, in insertion order
    node,               \* the Node objects, by node id
    job_keys,           \* keys of self.jobs
    job,                \* the Job objects, by job id
    job_queue,          \* self.job_queue: a bag of keys (-priority, created_at, job_id)
    tasks,              \* _simulate_job_execution tasks: (job, node) -> position
    cancel_reply,       \* server.py: the reply to the last POST /cancel_job/{job_id}
    stream_pc,          \* position of the /generateThumbnail/stream handler
    stream_req,         \* the ThumbnailStreamRequest of the stream
    frames,             \* the frames sent on the stream's WebSocket, in order
    last_send,          \* history: the last job _assign_job_to_node was called
                        \* for, its node and whether the send succeeded
    last_pick,          \* history: the last node _select_node returned, and
                        \* the nodes that were available when it did
    node_config,        \* ClusterNode.config: max_concurrent_jobs, capabilities
    node_pc,            \* position of ClusterNode.start() and stop()
    node_is_running,    \* ClusterNode.is_running
    is_registered,      \* ClusterNode.is_registered
    dispatcher_stub,    \* ClusterNode.dispatcher_stub: "none" or "stub"
    jobs,               \* ClusterNode.jobs: the node's Job objects, by job id
    active_jobs,        \* keys of ClusterNode.active_jobs
    completed_jobs,     \* keys of ClusterNode.completed_jobs
    failed_jobs,        \* keys of ClusterNode.failed_jobs
    loops,              \* the _heartbeat_task and _job_processor_task of the node
    workers,            \* the _process_job tasks of the node, by job id
    register_calls,     \* history: registrations requested from the dispatcher
    heartbeat_failures, \* history: consecutive health-check sends that failed
    callback_result,    \* history: how the callback POST of a job ended
    bridge_max_retries, \* PowerShellBridge.max_retries
    retry_count,        \* execute_script: retry_count
    last_error,         \* execute_script: last_error
    script_pc,          \* position of PowerShellBridge.execute_script
    script_return,      \* what execute_script returned or raised
    attempts,           \* history: how each _run_powershell_script of the call ended
    _script_cache,      \* PowerShellBridge._script_cache: hash(script) -> output
    sync_calls,         \* history: the calls of _run_powershell_script_sync
    clients,            \* UXPBridge.clients: the connected plugins
    message_id,         \* UXPBridge.message_id
    pending_requests,   \* keys of UXPBridge.pending_requests
    futures,            \* the Future of each message id: "none", "pending",
                        \* "result", "exception" or "cancelled"
    command_pc,         \* position of each call of UXPBridge._send_command
    command_id          \* the message id of each call, 0 when it took none

\* the state of one /generateThumbnail/stream connection
stream_vars == <<stream_pc, stream_req, frames>>

\* the state of a ClusterNode (cluster/node.py)
cluster_node_vars == <<node_config, node_pc, node_is_running, is_registered,
                       dispatcher_stub, jobs, active_jobs, completed_jobs,
                       failed_jobs, loops, workers, register_calls,
                       heartbeat_failures, callback_result>>

\* the state of one call of PowerShellBridge.execute_script
execute_vars == <<bridge_max_retries, retry_count, last_error, script_pc,
                  script_return, attempts>>

\* the script cache of a PowerShellBridge
cache_vars == <<_script_cache, sync_calls>>

\* the state of a PowerShellBridge (bridge/powershell_backend.py)
bridge_vars == <<execute_vars, cache_vars>>

\* the state of a UXPBridge (bridge/uxp_backend.py)
uxp_vars == <<clients, message_id, pending_requests, futures, command_pc, command_id>>

\* the state that is neither the ClusterDispatcher's nor an endpoint's
other_vars == <<last_pick, last_send, cluster_node_vars, bridge_vars, uxp_vars>>

\* the state outside the ClusterDispatcher object: the HTTP and WebSocket
\* endpoints of server.py and the rest
server_vars == <<cancel_reply, stream_vars, other_vars>>

\* the state of the ClusterDispatcher
dispatcher_vars == <<is_running, started, stop_pc, cleanup_alive, routing_strategy,
                     round_robin_index, node_keys, node, job_keys, job, job_queue,
                     tasks>>

vars == <<is_running, started, stop_pc, cleanup_alive, routing_strategy,
          round_robin_index, node_keys, node, job_keys, job, job_queue, tasks,
          server_vars>>

\* the capability tags of a node started with its defaults (start_cluster_node)
DefaultCapabilities ==
    {"open_file", "save_file", "export_layer", "run_action", "auto_retouch"}

\* Job.job_type of the jobs submitted
JobTypes == {"open_file", "auto_retouch"}

\* dataclass Node, as constructed: Node(node_id, host, port, capabilities, max)
NewNode(maxc, caps) ==
    [status |-> "unknown", active_jobs |-> 0, max_concurrent_jobs |-> maxc,
     current_jobs |-> {}, capabilities |-> caps]

\* dataclass Job, as constructed: Job(job_id, job_type, payload, priority)
NewJob(prio, t, type) ==
    [status |-> "queued", priority |-> prio, created_at |-> t,
     assigned_at |-> "null", started_at |-> "null", completed_at |-> "null",
     assigned_node_id |-> 0, job_type |-> type]

\* a job id for which no Job object has been constructed
NoJob == [NewJob(0, 0, "") EXCEPT !.status = "none"]

\* no request has been made to the endpoints of server.py
NoReply == [job_id |-> 0, http |-> 0, status |-> "", message |-> ""]

\* no request has been received on the stream
NoRequest == [bridge_mode |-> "", width |-> 0, height |-> 0, format |-> ""]

\* no node has been selected yet
NoPick == [node |-> 0, available |-> {}]

\* _assign_job_to_node has not been called yet
NoSend == [job |-> 0, node |-> 0, sent |-> TRUE]

\* the endpoints before any request: the stream's WebSocket has been accepted
InitEndpoints ==
    /\ last_pick = NoPick
    /\ last_send = NoSend
    /\ cancel_reply = NoReply
    /\ stream_pc = "accepted"
    /\ stream_req = NoRequest
    /\ frames = << >>

\* NodeConfig(max_concurrent_jobs, capabilities)
NodeConfig(maxc, caps) == [max_concurrent_jobs |-> maxc, capabilities |-> caps]

\* the jobs of one node
MaxNodeJobs == 2

NodeJobIds == 1..MaxNodeJobs

\* dataclass Job of node.py, as constructed; callback_url: whether one is set
NodeJob(type, prio, cb) ==
    [status |-> "queued", job_type |-> type, priority |-> prio,
     callback_url |-> cb, error_message |-> ""]

\* a job id for which the node has no Job object
NoNodeJob == [NodeJob("", 0, FALSE) EXCEPT !.status = "none"]

\* ClusterNode.__init__(config), with a backend object in self.backend
InitClusterNode(config) ==
    /\ node_config = config
    /\ node_pc = "new"
    /\ node_is_running = FALSE
    /\ is_registered = FALSE
    /\ dispatcher_stub = "none"
    /\ jobs = [j \in NodeJobIds |-> NoNodeJob]
    /\ active_jobs = {}
    /\ completed_jobs = {}
    /\ failed_jobs = {}
    /\ loops = [heartbeat |-> "none", processor |-> "none"]
    /\ workers = [j \in NodeJobIds |-> "none"]
    /\ register_calls = 0
    /\ heartbeat_failures = 0
    /\ callback_result = [j \in NodeJobIds |-> "none"]

\* no value: execute_script has neither returned nor raised; last_error = None
NoValue == [kind |-> "none", text |-> ""]

\* PowerShellBridge.__init__(), then max_retries set to `retries`
InitPowerShellBridge(retries) ==
    /\ bridge_max_retries = retries
    /\ retry_count = 0
    /\ last_error = NoValue
    /\ script_pc = "idle"
    /\ script_return = NoValue
    /\ attempts = << >>
    /\ _script_cache = [h \in {} |-> ""]
    /\ sync_calls = << >>

\* the calls of _send_command on one UXPBridge
MaxCommands == 3

CommandIds == 1..MaxCommands

\* UXPBridge.__init__(): no plugin is connected and no command has been sent
InitUXPBridge ==
    /\ clients = {}
    /\ message_id = 0
    /\ pending_requests = {}
    /\ futures = [i \in CommandIds |-> "none"]
    /\ command_pc = [c \in CommandIds |-> "none"]
    /\ command_id = [c \in CommandIds |-> 0]

\* the state outside the dispatcher before anything has run; the node is the
\* one start_cluster_node configures by default
InitServer ==
    /\ InitEndpoints
    /\ InitClusterNode(NodeConfig(5, DefaultCapabilities))
    /\ InitPowerShellBridge(3)
    /\ InitUXPBridge

\* ClusterDispatcher.__init__(config) with config.routing_strategy = strategy
\* for the node ids `ids`
InitDispatcherOf(strategy, ids) ==
    /\ is_running = FALSE
    /\ started = FALSE
    /\ stop_pc = "idle"
    /\ cleanup_alive = TRUE
    /\ routing_strategy = strategy
    /\ round_robin_index = 0
    /\ node_keys = << >>
    /\ node = [n \in ids |-> NewNode(0, {})]
    /\ job_keys = {}
    /\ job = [j \in JobIds |-> NoJob]
    /\ job_queue = EmptyBag
    /\ tasks = [p \in JobIds \X ids |-> "none"]

\* ClusterDispatcher.__init__(config) for the node ids NodeIds
InitDispatcher(strategy) == InitDispatcherOf(strategy, NodeIds)

\* ClusterDispatcher.__init__ with routing_strategy = RANDOM: its node choices
\* include the choice every other strategy makes among the available nodes
Init ==
    /\ InitDispatcher("random")
    /\ InitServer


\* ------------------------------------------------------------ the job queue
\* seeded fault: the priority enters the key without its sign
QueueKey_priority_not_negated(jb, id) == <<jb.priority, jb.created_at, id>>

\* seeded fault: the key leaves out created_at
QueueKey_without_created_at(jb, id) == <<0 - jb.priority, 0, id>>

\* the heap entry of a job: (-job.priority, job.created_at, job.job_id)
QueueKey(jb, id) == <<0 - jb.priority, jb.created_at, id>>

\* Python's order on the heap's tuples: lexicographic
KeyLess(a, b) ==
    \/ a[1] < b[1]
    \/ a[1] = b[1] /\ a[2] < b[2]
    \/ a[1] = b[1] /\ a[2] = b[2] /\ a[3] < b[3]

\* heapq.heappush(self.job_queue, key)
heappush(q, key) == q (+) SetToBag({key})

\* the entry heapq.heappop returns: the smallest one
HeapTop(q) ==
    CHOOSE e \in BagToSet(q) : \A f \in BagToSet(q) : f = e \/ KeyLess(e, f)

\* the heap heapq.heappop leaves
heappop(q) == q (-) SetToBag({HeapTop(q)})

\* ---------------------------------------------------------------- Node
\* seeded fault: availability without the capacity test
is_available_ignores_capacity(nd) ==
    nd.status = "healthy" \/ nd.status = "degraded"

\* Node.is_available
is_available(nd) ==
    /\ nd.status = "healthy" \/ nd.status = "degraded"
    /\ nd.active_jobs < nd.max_concurrent_jobs

\* Node.load_factor, as the fraction <<numerator, denominator>>
load_factor(nd) ==
    IF nd.max_concurrent_jobs = 0 THEN <<1, 1>>
    ELSE <<nd.active_jobs, nd.max_concurrent_jobs>>

\* load_factor a < load_factor b (denominators are positive)
LoadLess(a, b) == a[1] * b[2] < b[1] * a[2]

\* node_id in self.nodes
Registered(n) == \E i \in 1..Len(node_keys) : node_keys[i] = n

\* the keys of self.nodes
RegisteredNodes == {node_keys[i] : i \in 1..Len(node_keys)}

\* [node for node in self.nodes.values() if node.is_available]
AvailableNodes == SelectSeq(node_keys, LAMBDA n : is_available(node[n]))

\* seeded fault: least_busy takes the first available node
LeastBusy_first_available(avail) == avail[1]

\* min(available_nodes, key=lambda node: node.load_factor): the first minimum
LeastBusy(avail) ==
    LET i == CHOOSE i \in 1..Len(avail) :
                 /\ \A k \in 1..Len(avail) :
                        ~LoadLess(load_factor(node[avail[k]]), load_factor(node[avail[i]]))
                 /\ \A k \in 1..(i - 1) :
                        LoadLess(load_factor(node[avail[i]]), load_factor(node[avail[k]]))
    IN avail[i]

\* the round-robin scan of _select_node: advance the index at most `left`
\* times, up to a node of available_nodes; available_nodes[0] when none is met
RECURSIVE RoundRobinScan(_, _, _)
RoundRobinScan(avail, idx, left) ==
    IF left = 0 THEN [node |-> avail[1], rr |-> idx]
    ELSE LET nxt == (idx + 1) % Len(node_keys)
             n == node_keys[nxt + 1]
         IN IF \E k \in 1..Len(avail) : avail[k] = n
            THEN [node |-> n, rr |-> nxt]
            ELSE RoundRobinScan(avail, nxt, left - 1)

\* ClusterDispatcher._select_node for a non-empty available_nodes: the set of
\* possible results [node, rr] (rr: round_robin_index afterwards)
_select_node(avail) ==
    IF routing_strategy = "round_robin"
    THEN {RoundRobinScan(avail, round_robin_index, Len(node_keys))}
    ELSE IF routing_strategy = "random"
    THEN {[node |-> avail[k], rr |-> round_robin_index] : k \in 1..Len(avail)}
    ELSE {[node |-> LeastBusy(avail), rr |-> round_robin_index]}


\* ------------------------------------------------- requeue and health check
\* The mutable tables a handler works on: [node, job, queue].
Tables == [node |-> node, job |-> job, queue |-> job_queue]

\* the jobs _requeue_node_jobs(n) requeues
RequeueSet(S, n) ==
    {j \in S.node[n].current_jobs :
        j \in job_keys /\ S.job[j].status \in {"assigned", "running"}}

\* seeded fault: the requeue pushes the key with the time of the requeue,
\* which is later than every created_at
requeue_with_requeue_time(S, n) ==
    IF ~Registered(n) THEN S
    ELSE LET R == RequeueSet(S, n)
         IN [S EXCEPT
                !.job = [j \in JobIds |->
                            IF j \in R
                            THEN [S.job[j] EXCEPT !.status = "queued",
                                                  !.assigned_node_id = 0,
                                                  !.assigned_at = "null",
                                                  !.started_at = "null"]
                            ELSE S.job[j]],
                !.queue = S.queue (+) SetToBag({<<0 - S.job[j].priority, MaxTime + 1, j>> :
                                                  j \in R})]

\* ClusterDispatcher._requeue_node_jobs(node_id) on the tables S
_requeue_node_jobs(S, n) ==
    IF ~Registered(n) THEN S
    ELSE LET R == RequeueSet(S, n)
         IN [S EXCEPT
                !.job = [j \in JobIds |->
                            IF j \in R
                            THEN [S.job[j] EXCEPT !.status = "queued",
                                                  !.assigned_node_id = 0,
                                                  !.assigned_at = "null",
                                                  !.started_at = "null"]
                            ELSE S.job[j]],
                !.queue = S.queue (+) SetToBag({QueueKey(S.job[j], j) : j \in R})]

\* what one pass of _check_node_health finds for a node that is not
\* UNHEALTHY: "timed_out" (current_time - node.last_heartbeat > node_timeout)
\* or the status its probe reports (random.choices in the placeholder)
Findings == {"timed_out", "healthy", "degraded", "unhealthy"}

\* the nodes for which a pass of _check_node_health does anything
LiveNodes == {n \in RegisteredNodes : node[n].status # "unhealthy"}

\* the timeout check of _check_node_health for one node
TimeoutCheck(S, n, timed_out) ==
    IF timed_out /\ S.node[n].status # "unhealthy"
    THEN _requeue_node_jobs([S EXCEPT !.node[n].status = "unhealthy"], n)
    ELSE S

\* the probe of _check_node_health for one node; `result` is the status the
\* probe reports (the except branch is not modelled: nothing in the
\* placeholder probe raises)
Probe(S, n, result) ==
    IF S.node[n].status # "unhealthy"
    THEN [S EXCEPT !.node[n].status = result]
    ELSE S

\* the loop of _check_node_health over list(self.nodes.items()), from index i
RECURSIVE CheckNodes(_, _, _)
CheckNodes(S, i, found) ==
    IF i > Len(node_keys) THEN S
    ELSE LET n == node_keys[i]
             late == n \in DOMAIN found /\ found[n] = "timed_out"
             S1 == TimeoutCheck(S, n, late)
             S2 == IF n \in DOMAIN found THEN Probe(S1, n, found[n]) ELSE S1
         IN CheckNodes(S2, i + 1, found)

\* one iteration of _health_check_task: _check_node_health()
_check_node_health ==
    /\ started /\ is_running
    /\ \E found \in [LiveNodes -> Findings] :
         LET S == CheckNodes(Tables, 1, found)
         IN /\ node' = S.node
            /\ job' = S.job
            /\ job_queue' = S.queue
    /\ UNCHANGED <<is_running, started, stop_pc, cleanup_alive, routing_strategy,
                   round_robin_index, node_keys, job_keys, tasks>>
    /\ UNCHANGED server_vars

\* ------------------------------------------------------------ dispatch loop
\* seeded fault: the dispatch loop skips only the entries of missing jobs
Stale_ignores_status(id) == id \notin job_keys

\* a popped entry the dispatch loop skips: `not job or job.status != QUEUED`
Stale(id) == id \notin job_keys \/ job[id].status # "queued"

\* seeded fault: the dispatch loop reads the first entry it does not skip and
\* leaves the queue as it is
PopQueued_leaves_entry(q) ==
    LET live == {e \in BagToSet(q) : ~Stale(e[3])}
    IN IF live = {} THEN [queue |-> EmptyBag, picked |-> 0]
       ELSE [queue |-> q,
             picked |-> (CHOOSE e \in live : \A f \in live : f = e \/ KeyLess(e, f))[3]]

\* seeded fault: the dispatch loop drops the entry it pops
PopQueued_drops_entry(q) == [queue |-> heappop(q), picked |-> 0]

\* the pops of _job_dispatcher_task up to the first entry it does not skip
\* (`continue` does not suspend): [queue, picked]; picked = 0 when the queue
\* ran empty
RECURSIVE PopQueued(_)
PopQueued(q) ==
    IF q = EmptyBag THEN [queue |-> q, picked |-> 0]
    ELSE LET id == HeapTop(q)[3]
         IN IF Stale(id) THEN PopQueued(heappop(q))
            ELSE [queue |-> heappop(q), picked |-> id]

\* _assign_job_to_node(job, node) when the send succeeds
AssignOk(j, n) ==
    /\ job' = [job EXCEPT ![j].status = "assigned",
                          ![j].assigned_node_id = n,
                          ![j].assigned_at = "set"]
    /\ node' = [node EXCEPT ![n].active_jobs = @ + 1,
                            ![n].current_jobs = @ \cup {j}]
    /\ tasks' = [tasks EXCEPT ![<<j, n>>] = "created"]

\* seeded fault: a rollback that leaves the job in the node's current_jobs
AssignRollback_keeps_in_flight(j, n, q) ==
    /\ job' = [job EXCEPT ![j].status = "queued",
                          ![j].assigned_node_id = 0,
                          ![j].assigned_at = "null"]
    /\ node' = [node EXCEPT ![n].current_jobs = @ \cup {j}]
    /\ job_queue' = heappush(q, QueueKey(job[j], j))
    /\ UNCHANGED tasks

\* _assign_job_to_node(job, node) when the send raises: the except branch
AssignRollback(j, n, q) ==
    LET nd == [node[n] EXCEPT !.active_jobs = @ + 1, !.current_jobs = @ \cup {j}]
        a == nd.active_jobs - 1
    IN /\ job' = [job EXCEPT ![j].status = "queued",
                             ![j].assigned_node_id = 0,
                             ![j].assigned_at = "null"]
       /\ node' = [node EXCEPT ![n] = [nd EXCEPT !.active_jobs = IF a > 0 THEN a ELSE 0,
                                                 !.current_jobs = @ \ {j}]]
       /\ job_queue' = heappush(q, QueueKey(job[j], j))
       /\ UNCHANGED tasks

\* one iteration of _job_dispatcher_task that reaches the pop (_select_node
\* returns a node whenever available_nodes is not empty, so the re-push of
\* the `not selected_node` branch is never taken)
\* With `recorded` the history keeps what _select_node returned, with `logged`
\* the job and the node _assign_job_to_node was called with and whether its
\* send succeeded.
DispatchStep(recorded, logged) ==
    /\ started /\ is_running
    /\ job_queue # EmptyBag
    /\ AvailableNodes # << >>
    /\ LET r == PopQueued(job_queue)
       IN IF r.picked = 0
          THEN /\ job_queue' = r.queue
               /\ UNCHANGED <<job, node, tasks, round_robin_index, last_pick, last_send>>
          ELSE \E sel \in _select_node(AvailableNodes) :
                 /\ round_robin_index' = sel.rr
                 /\ \/ /\ AssignOk(r.picked, sel.node) /\ job_queue' = r.queue
                       /\ last_send' = IF logged
                                       THEN [job |-> r.picked, node |-> sel.node,
                                             sent |-> TRUE]
                                       ELSE last_send
                    \/ /\ AssignRollback(r.picked, sel.node, r.queue)
                       /\ last_send' = IF logged
                                       THEN [job |-> r.picked, node |-> sel.node,
                                             sent |-> FALSE]
                                       ELSE last_send
                 /\ last_pick' = IF recorded
                                 THEN [node |-> sel.node,
                                       available |-> {AvailableNodes[k] :
                                                        k \in 1..Len(AvailableNodes)}]
                                 ELSE last_pick
    /\ UNCHANGED <<is_running, started, stop_pc, cleanup_alive, routing_strategy,
                   node_keys, job_keys>>
    /\ UNCHANGED <<cancel_reply, stream_vars, cluster_node_vars, bridge_vars, uxp_vars>>

\* one iteration of _job_dispatcher_task, with or without the selection in
\* the history
DispatchIteration(recorded) == DispatchStep(recorded, FALSE)

\* one iteration of _job_dispatcher_task
_job_dispatcher_task == DispatchIteration(FALSE)

\* one iteration of _job_dispatcher_task, the selection kept in the history
_job_dispatcher_task_recorded == DispatchIteration(TRUE)

\* one iteration of _job_dispatcher_task, the send kept in the history
_job_dispatcher_task_logged == DispatchStep(FALSE, TRUE)


\* ----------------------------------------------------------- job execution
\* _simulate_job_execution(job, node) up to its sleep
SimStart(j, n) ==
    /\ tasks[<<j, n>>] = "created"
    /\ job' = [job EXCEPT ![j].status = "running", ![j].started_at = "set"]
    /\ tasks' = [tasks EXCEPT ![<<j, n>>] = "sleeping"]
    /\ UNCHANGED <<is_running, started, stop_pc, cleanup_alive, routing_strategy,
                   round_robin_index, node_keys, node, job_keys, job_queue>>
    /\ UNCHANGED server_vars

\* the Job after the sleep of _simulate_job_execution; ok: random() < 0.9
Finished(jb, ok) ==
    IF ok
    THEN [jb EXCEPT !.status = "completed", !.completed_at = "set"]
    ELSE [jb EXCEPT !.status = "failed", !.completed_at = "set"]

\* seeded fault: the completion leaves the counter as it is
Released_keeps_counter(nd, j) == [nd EXCEPT !.current_jobs = @ \ {j}]

\* the Node after the sleep of _simulate_job_execution (set.remove of an
\* absent id raises KeyError after the counter is written: the task ends)
Released(nd, j) ==
    [nd EXCEPT !.active_jobs = IF @ - 1 > 0 THEN @ - 1 ELSE 0,
               !.current_jobs = @ \ {j}]

\* _simulate_job_execution(job, node) from the end of its sleep
SimFinish(j, n) ==
    /\ tasks[<<j, n>>] = "sleeping"
    /\ \E ok \in BOOLEAN : job' = [job EXCEPT ![j] = Finished(@, ok)]
    /\ node' = [node EXCEPT ![n] = Released(@, j)]
    /\ tasks' = [tasks EXCEPT ![<<j, n>>] = "none"]
    /\ UNCHANGED <<is_running, started, stop_pc, cleanup_alive, routing_strategy,
                   round_robin_index, node_keys, job_keys, job_queue>>
    /\ UNCHANGED server_vars

\* ------------------------------------------------------------ start and stop
\* ClusterDispatcher.start(), from the return of server.start()
start ==
    /\ ~is_running /\ ~started
    /\ is_running' = TRUE
    /\ started' = TRUE
    /\ UNCHANGED <<stop_pc, cleanup_alive, routing_strategy, round_robin_index,
                   node_keys, node, job_keys, job, job_queue, tasks>>
    /\ UNCHANGED server_vars

\* the Job stop() leaves
Cancelled(jb) ==
    IF jb.status \in {"queued", "assigned", "running"}
    THEN [jb EXCEPT !.status = "cancelled", !.completed_at = "set"]
    ELSE jb

\* ClusterDispatcher.stop() up to `await self.server.stop(0)`
stop ==
    /\ is_running /\ stop_pc = "idle"
    /\ job' = [j \in JobIds |-> IF j \in job_keys THEN Cancelled(job[j]) ELSE job[j]]
    /\ stop_pc' = "server_stop"
    /\ UNCHANGED <<is_running, started, cleanup_alive, routing_strategy,
                   round_robin_index, node_keys, node, job_keys, job_queue, tasks>>
    /\ UNCHANGED server_vars

\* ClusterDispatcher.stop() from the return of server.stop(0)
stop_return ==
    /\ stop_pc = "server_stop"
    /\ is_running' = FALSE
    /\ stop_pc' = "done"
    /\ UNCHANGED <<started, cleanup_alive, routing_strategy, round_robin_index,
                   node_keys, node, job_keys, job, job_queue, tasks>>
    /\ UNCHANGED server_vars

\* ------------------------------------------------------------------ cleanup
\* the jobs _cleanup_old_jobs pops; old: the jobs with
\* current_time - job.completed_at > retention_period
OldJobs(old) ==
    {j \in job_keys : job[j].status \in Terminal /\ job[j].completed_at = "set"
                         /\ j \in old}

\* the position in self.nodes of the first UNHEALTHY node, 0 when there is none
FirstUnhealthy ==
    IF \E i \in 1..Len(node_keys) : node[node_keys[i]].status = "unhealthy"
    THEN CHOOSE i \in 1..Len(node_keys) :
            /\ node[node_keys[i]].status = "unhealthy"
            /\ \A k \in 1..(i - 1) : node[node_keys[k]].status # "unhealthy"
    ELSE 0

\* self.nodes without its i-th key
PopNode(i) == SubSeq(node_keys, 1, i - 1) \o SubSeq(node_keys, i + 1, Len(node_keys))

\* one iteration of _cleanup_task: _cleanup_old_jobs(), then
\* _cleanup_unhealthy_nodes(), whose loop body ends, for an UNHEALTHY node,
\* in node.current_jobs.remove(job_id) with job_id unbound: the NameError ends
\* the task; long_gone: current_time - node.last_heartbeat > unhealthy_threshold
_cleanup_task ==
    /\ started /\ is_running /\ cleanup_alive
    /\ \E old \in SUBSET JobIds : job_keys' = job_keys \ OldJobs(old)
    /\ LET i == FirstUnhealthy
       IN IF i = 0
          THEN UNCHANGED <<node_keys, cleanup_alive>>
          ELSE /\ cleanup_alive' = FALSE
               /\ \E long_gone \in BOOLEAN :
                    node_keys' = IF long_gone THEN PopNode(i) ELSE node_keys
    /\ UNCHANGED <<is_running, started, stop_pc, routing_strategy, round_robin_index,
                   node, job, job_queue, tasks>>
    /\ UNCHANGED server_vars

\* ----------------------------------------------------------------- requests
\* RegisterNode (an RPC of the running server) of a node id not seen before,
\* with its max_concurrent_jobs and its capabilities
RegisterNode(n, maxc, caps) ==
    /\ is_running
    /\ ~Registered(n) /\ node[n].status = "unknown"
    /\ node' = [node EXCEPT ![n] = [NewNode(maxc, caps) EXCEPT !.status = "healthy"]]
    /\ node_keys' = Append(node_keys, n)
    /\ UNCHANGED <<is_running, started, stop_pc, cleanup_alive, routing_strategy,
                   round_robin_index, job_keys, job, job_queue, tasks>>
    /\ UNCHANGED server_vars

\* time.time() at the creation of a Job: the clock never runs backwards, and
\* it is read relative to the creation of the first job
Clock(t) ==
    IF \A j \in JobIds : job[j].status = "none" THEN t = 0
    ELSE \A j \in JobIds : job[j].status # "none" => job[j].created_at <= t

\* add_job(job), called by the /submit_job endpoint of the running server:
\* a new Job enters the job table and the queue
add_job(j, prio, t, type) ==
    /\ is_running
    /\ job[j].status = "none"
    /\ Clock(t)
    /\ job' = [job EXCEPT ![j] = NewJob(prio, t, type)]
    /\ job_keys' = job_keys \cup {j}
    /\ job_queue' = heappush(job_queue, QueueKey(NewJob(prio, t, type), j))
    /\ UNCHANGED <<is_running, started, stop_pc, cleanup_alive, routing_strategy,
                   round_robin_index, node_keys, node, tasks>>
    /\ UNCHANGED server_vars

\* ClusterDispatcher.cancel_job(job_id), called by the /cancel_job endpoint:
\* what the call finds ("not_found", "already_terminal", or "cancelled" for a
\* Queued, Assigned or Running job)
CancelOutcome(j) ==
    IF j \notin job_keys THEN "not_found"
    ELSE IF job[j].status \in Terminal THEN "already_terminal"
    ELSE "cancelled"

\* the job table ClusterDispatcher.cancel_job(job_id) leaves: a Queued job is
\* Cancelled at once, an Assigned or Running one when its node has
\* acknowledged the Cancel or the cancel-timeout has passed
CancelledJobs(j) ==
    IF CancelOutcome(j) = "cancelled"
    THEN [job EXCEPT ![j].status = "cancelled", ![j].completed_at = "set"]
    ELSE job

\* the reply of the endpoint cancel_job(job_id) of server.py to what
\* cluster_dispatcher.cancel_job returned: `if not success` raises the
\* HTTPException 404, otherwise the StatusResponse "ok" is returned
CancelReply(j, success) ==
    IF success
    THEN [job_id |-> j, http |-> 200, status |-> "ok",
          message |-> "cancelled successfully"]
    ELSE [job_id |-> j, http |-> 404, status |-> "error",
          message |-> "not found or already completed"]

\* POST /cancel_job/{job_id}: the endpoint cancel_job of server.py.  The
\* value returned for an already terminal job is either truthy (the job's
\* status with an indicator) or falsy (the endpoint's own reading: "not found
\* or already completed")
cancel_job(j) ==
    /\ is_running
    /\ job' = CancelledJobs(j)
    /\ \E truthy \in BOOLEAN :
         LET success == \/ CancelOutcome(j) = "cancelled"
                        \/ CancelOutcome(j) = "already_terminal" /\ truthy
         IN cancel_reply' = CancelReply(j, success)
    /\ UNCHANGED <<is_running, started, stop_pc, cleanup_alive, routing_strategy,
                   round_robin_index, node_keys, node, job_keys, job_queue, tasks>>
    /\ UNCHANGED <<stream_vars, other_vars>>

\* ------------------------------------------- /generateThumbnail/stream
\* The handler generate_thumbnail_stream of server.py and the method
\* generate_thumbnail_stream of the bridge it calls.  Every send on the
\* WebSocket suspends the handler, so each action is the code up to and
\* including the next send.

\* ThumbnailStreamRequest.bridge_mode: the three backends
BridgeModes == {"applescript", "powershell", "uxp"}

\* ThumbnailStreamRequest.width, .height and .format
Widths == {128, 256}

Heights == {128, 256}

Formats == {"jpeg", "png"}

\* the sizes the thumbnail script can return for a requested size: the
\* document is scaled to fit it
Fitted(size) == {size, size \div 2}

\* a message handed to websocket.send_json
Frame(type, step, percent, data) ==
    [type |-> type, step |-> step, percent |-> percent, data |-> data]

\* the "start" message of the bridges
StartFrame(req) == Frame("start", "", 0, <<req.width, req.height, req.format>>)

\* seeded fault: the script is announced with a smaller number than the
\* step before it
Percent_script_announced_low(step) ==
    CASE step = "opening_file" -> 10
      [] step = "generating_thumbnail" -> 30
      [] step = "executing_script" -> 20
      [] OTHER -> 80

\* the "progress" number the bridges send with each step
Percent(step) ==
    CASE step = "opening_file" -> 10
      [] step = "generating_thumbnail" -> 30
      [] step = "executing_script" -> 50
      [] OTHER -> 80

\* the "progress" message of the bridges
ProgressFrame(step) == Frame("progress", step, Percent(step), << >>)

\* the step sent after the script has returned
LastStep(mode) == IF mode = "uxp" THEN "processing_image" ELSE "encoding_image"

\* an "error" message, of a bridge or of the handler
ErrorFrame == Frame("error", "", 0, << >>)

\* the "complete" message of the bridges
CompleteFrame(w, h, f) == Frame("complete", "", 0, <<w, h, f>>)

\* the "result" message of the handler, with the response of the bridge
ResultFrame(data) == Frame("result", "", 0, data)

\* await websocket.send_json(message)
send_json(frame) == frames' = Append(frames, frame)

\* from websocket.receive_text() to the first send: the request is not JSON,
\* or not a ThumbnailStreamRequest, or get_bridge raises (the handler sends
\* an "error"); or the bridge method is entered and either its temporary file
\* cannot be created (it raises before its try: the handler sends an "error")
\* or it sends "start"
receive_request ==
    /\ stream_pc = "accepted"
    /\ \/ /\ send_json(ErrorFrame)
          /\ stream_pc' = "closed"
          /\ UNCHANGED stream_req
       \/ \E m \in BridgeModes, w \in Widths, h \in Heights, f \in Formats :
            /\ stream_req' = [bridge_mode |-> m, width |-> w, height |-> h,
                              format |-> f]
            /\ \/ /\ m # "uxp"
                  /\ send_json(ErrorFrame)
                  /\ stream_pc' = "closed"
               \/ /\ send_json(StartFrame(stream_req'))
                  /\ stream_pc' = "started"
    /\ UNCHANGED <<dispatcher_vars, cancel_reply, other_vars>>

\* the bridge announces the opening of the file
notify_opening_file ==
    /\ stream_pc = "started"
    /\ send_json(ProgressFrame("opening_file"))
    /\ stream_pc' = "open_file"
    /\ UNCHANGED <<dispatcher_vars, cancel_reply, other_vars, stream_req>>

\* `if not await self.open_file(path)`: the file is open and the next step is
\* announced; or open_file returns False and the bridge sends an "error"
\* before it raises; or open_file raises and the except clause of the bridge
\* sends an "error"
open_file ==
    /\ stream_pc = "open_file"
    /\ \/ /\ send_json(ProgressFrame("generating_thumbnail"))
          /\ stream_pc' = "generating"
       \/ /\ send_json(ErrorFrame)
          /\ stream_pc' = "raised"
       \/ /\ send_json(ErrorFrame)
          /\ stream_pc' = "reraised"
    /\ UNCHANGED <<dispatcher_vars, cancel_reply, other_vars, stream_req>>

\* `except Exception as e` of the bridge, for the RuntimeError raised in its
\* own try block: it sends an "error" and raises again
bridge_except ==
    /\ stream_pc = "raised"
    /\ send_json(ErrorFrame)
    /\ stream_pc' = "reraised"
    /\ UNCHANGED <<dispatcher_vars, cancel_reply, other_vars, stream_req>>

\* `except Exception as e` of the handler around the call of the bridge: it
\* sends an "error"
handler_except ==
    /\ stream_pc = "reraised"
    /\ send_json(ErrorFrame)
    /\ stream_pc' = "closed"
    /\ UNCHANGED <<dispatcher_vars, cancel_reply, other_vars, stream_req>>

\* the bridge announces the execution of the script
notify_executing_script ==
    /\ stream_pc = "generating"
    /\ send_json(ProgressFrame("executing_script"))
    /\ stream_pc' = "execute_script"
    /\ UNCHANGED <<dispatcher_vars, cancel_reply, other_vars, stream_req>>

\* `result = await self.execute_script(js_script)`: the result is the
\* expected object and the last step is announced; or it is not (not a dict,
\* for uxp also a dict without success) and the bridge sends an "error"
\* before it raises; or execute_script raises and the except clause of the
\* bridge sends an "error"
execute_script ==
    /\ stream_pc = "execute_script"
    /\ \/ /\ send_json(ProgressFrame(LastStep(stream_req.bridge_mode)))
          /\ stream_pc' = "encoding"
       \/ /\ send_json(ErrorFrame)
          /\ stream_pc' = "raised"
       \/ /\ send_json(ErrorFrame)
          /\ stream_pc' = "reraised"
    /\ UNCHANGED <<dispatcher_vars, cancel_reply, other_vars, stream_req>>

\* from the last step to "complete": applescript and powershell read the
\* temporary file, which raises when the script has not written it (the
\* except clause of the bridge sends an "error")
encode_image ==
    /\ stream_pc = "encoding"
    /\ \/ \E w \in Fitted(stream_req.width), h \in Fitted(stream_req.height) :
            /\ send_json(CompleteFrame(w, h, stream_req.format))
            /\ stream_pc' = "completed"
       \/ /\ stream_req.bridge_mode # "uxp"
          /\ send_json(ErrorFrame)
          /\ stream_pc' = "reraised"
    /\ UNCHANGED <<dispatcher_vars, cancel_reply, other_vars, stream_req>>

\* the bridge has returned its response: the handler sends it as "result"
send_result ==
    /\ stream_pc = "completed"
    /\ send_json(ResultFrame(frames[Len(frames)].data))
    /\ stream_pc' = "closed"
    /\ UNCHANGED <<dispatcher_vars, cancel_reply, other_vars, stream_req>>

\* one /generateThumbnail/stream connection
NextStream ==
    \/ receive_request
    \/ notify_opening_file
    \/ open_file
    \/ bridge_except
    \/ handler_except
    \/ notify_executing_script
    \/ execute_script
    \/ encode_image
    \/ send_result

SpecStream == Init /\ [][NextStream]_vars

\* --------------------------------------------------------- the cluster node
\* ClusterNode of cluster/node.py.  self.backend is an object that offers the
\* methods node.py calls on it; each call returns or raises.  A coroutine that
\* contains no await that suspends runs within the step that awaits it.

\* the state outside the ClusterNode
outside_node == <<dispatcher_vars, cancel_reply, stream_vars, last_pick, last_send,
                  bridge_vars, uxp_vars>>

\* the job types _process_job has a handler for
HandledTypes == {"execute_command", "get_document_info", "export_document"}

\* Job.job_type of the jobs a node receives
NodeJobTypes == {"execute_command", "auto_retouch"}

\* NodeConfig.capabilities of the nodes
NodeCapabilitySets == {DefaultCapabilities, {"execute_command"}}

\* the consecutive failed sends the history counts up to
MaxFailures == 3

\* ClusterNode.start().  self.dispatcher_stub is created by a commented-out
\* line that needs the generated gRPC module, which the repository does not
\* contain: without it the stub stays None ("none"), with it the stub exists.
ClusterNode_start ==
    /\ node_pc = "new" /\ ~node_is_running
    /\ \E outcome \in {"initialize_raised", "channel_raised", "returned"} :
         IF outcome = "returned"
         THEN \E stub \in {"none", "stub"} :
                /\ dispatcher_stub' = stub
                /\ is_registered' = (stub # "none")
                /\ register_calls' = IF stub # "none" THEN register_calls + 1
                                     ELSE register_calls
                /\ loops' = [heartbeat |-> "running", processor |-> "running"]
                /\ node_is_running' = TRUE
                /\ node_pc' = "started"
         ELSE /\ node_pc' = "start_raised"
              /\ UNCHANGED <<dispatcher_stub, is_registered, register_calls, loops,
                             node_is_running>>
    /\ UNCHANGED <<node_config, jobs, active_jobs, completed_jobs, failed_jobs,
                   workers, heartbeat_failures, callback_result>>
    /\ UNCHANGED outside_node

\* ClusterNode.stop(), first statement: _unregister_from_dispatcher() when
\* the node is registered
ClusterNode_stop_unregister ==
    /\ node_pc = "started" /\ node_is_running
    /\ is_registered' = IF is_registered /\ dispatcher_stub # "none" THEN FALSE
                        ELSE is_registered
    /\ node_pc' = "stop_unregistered"
    /\ UNCHANGED <<node_config, node_is_running, dispatcher_stub, jobs, active_jobs,
                   completed_jobs, failed_jobs, loops, workers, register_calls,
                   heartbeat_failures, callback_result>>
    /\ UNCHANGED outside_node

\* ClusterNode.stop(), the loop over the active jobs, up to the await of
\* backend.shutdown(); no other coroutine runs between the first statement
\* and this one
ClusterNode_stop_cancel ==
    /\ node_pc = "stop_unregistered"
    /\ jobs' = [j \in NodeJobIds |->
                  IF j \in active_jobs
                  THEN [jobs[j] EXCEPT !.status = "cancelled",
                                       !.error_message = "Node shutdown"]
                  ELSE jobs[j]]
    /\ failed_jobs' = failed_jobs \cup active_jobs
    /\ active_jobs' = {}
    /\ node_pc' = "stopping"
    /\ UNCHANGED <<node_config, node_is_running, is_registered, dispatcher_stub,
                   completed_jobs, loops, workers, register_calls,
                   heartbeat_failures, callback_result>>
    /\ UNCHANGED outside_node

\* ClusterNode.stop(), after backend.shutdown(), server.stop() and
\* dispatcher_channel.close()
ClusterNode_stop_return ==
    /\ node_pc = "stopping"
    /\ node_is_running' = FALSE
    /\ node_pc' = "stopped"
    /\ UNCHANGED <<node_config, is_registered, dispatcher_stub, jobs, active_jobs,
                   completed_jobs, failed_jobs, loops, workers, register_calls,
                   heartbeat_failures, callback_result>>
    /\ UNCHANGED outside_node

\* one iteration of _heartbeat_task: _send_health_check() of a registered
\* node; `sent` is false when the try block of _send_health_check raises
_heartbeat_task ==
    /\ loops.heartbeat = "running" /\ node_pc # "stop_unregistered"
    /\ IF ~node_is_running
       THEN /\ loops' = [loops EXCEPT !.heartbeat = "ended"]
            /\ UNCHANGED heartbeat_failures
       ELSE /\ UNCHANGED loops
            /\ IF is_registered /\ dispatcher_stub # "none"
               THEN \E sent \in BOOLEAN :
                      heartbeat_failures' =
                          IF sent THEN 0
                          ELSE IF heartbeat_failures < MaxFailures
                               THEN heartbeat_failures + 1
                               ELSE heartbeat_failures
               ELSE UNCHANGED heartbeat_failures
    /\ UNCHANGED <<node_config, node_pc, node_is_running, is_registered,
                   dispatcher_stub, jobs, active_jobs, completed_jobs, failed_jobs,
                   workers, register_calls, callback_result>>
    /\ UNCHANGED outside_node

\* [job for job in self.jobs.values() if job.status == JobStatus.QUEUED]
pending_jobs == {j \in NodeJobIds : jobs[j].status = "queued"}

\* pending_jobs.sort(key=priority, reverse=True); pending_jobs[0]: the sort
\* is stable, so the first job of self.jobs among those of highest priority
FirstPending ==
    CHOOSE j \in pending_jobs :
        \A k \in pending_jobs :
            \/ jobs[k].priority < jobs[j].priority
            \/ jobs[k].priority = jobs[j].priority /\ j <= k

\* seeded fault: the processor starts a job when the active jobs are at the limit
AtLimit_off_by_one == Cardinality(active_jobs) > node_config.max_concurrent_jobs

\* len(self.active_jobs) >= self.config.max_concurrent_jobs
AtLimit == Cardinality(active_jobs) >= node_config.max_concurrent_jobs

\* one iteration of _job_processor_task
_job_processor_task ==
    /\ loops.processor = "running" /\ node_pc # "stop_unregistered"
    /\ IF ~node_is_running
       THEN /\ loops' = [loops EXCEPT !.processor = "ended"]
            /\ UNCHANGED <<jobs, active_jobs, workers>>
       ELSE /\ UNCHANGED loops
            /\ IF AtLimit \/ pending_jobs = {}
               THEN UNCHANGED <<jobs, active_jobs, workers>>
               ELSE LET j == FirstPending
                    IN /\ jobs' = [jobs EXCEPT ![j].status = "running"]
                       /\ active_jobs' = active_jobs \cup {j}
                       /\ workers' = [workers EXCEPT ![j] = "created"]
    /\ UNCHANGED <<node_config, node_pc, node_is_running, is_registered,
                   dispatcher_stub, completed_jobs, failed_jobs, register_calls,
                   heartbeat_failures, callback_result>>
    /\ UNCHANGED outside_node

\* seeded fault: the worker posts the callback of every job
AfterFiling_always_posts(j) == "callback"

\* where _process_job stands after filing the job: awaiting the callback
\* when the job has a callback_url, at its end otherwise
AfterFiling(j) == IF jobs[j].callback_url THEN "callback" ELSE "done"

\* seeded fault: the except branch files the job under failed_jobs and leaves
\* it in active_jobs
ProcessFailed_keeps_active(j, message) ==
    /\ jobs' = [jobs EXCEPT ![j].status = "failed", ![j].error_message = message]
    /\ failed_jobs' = failed_jobs \cup {j}
    /\ workers' = [workers EXCEPT ![j] = AfterFiling(j)]
    /\ UNCHANGED <<active_jobs, completed_jobs>>

\* the except branch of _process_job; self.active_jobs.pop(job.job_id) raises
\* KeyError, which leaves the task, when stop() has taken the job away
ProcessFailed(j, message) ==
    /\ jobs' = [jobs EXCEPT ![j].status = "failed", ![j].error_message = message]
    /\ IF j \in active_jobs
       THEN /\ active_jobs' = active_jobs \ {j}
            /\ failed_jobs' = failed_jobs \cup {j}
            /\ workers' = [workers EXCEPT ![j] = AfterFiling(j)]
       ELSE /\ workers' = [workers EXCEPT ![j] = "raised"]
            /\ UNCHANGED <<active_jobs, failed_jobs>>
    /\ UNCHANGED completed_jobs

\* _process_job(job) up to the await of the backend: the choice of the
\* handler by job_type and the handler's decoding of the payload
_process_job(j) ==
    /\ workers[j] = "created" /\ node_pc # "stop_unregistered"
    /\ IF jobs[j].job_type \in HandledTypes
       THEN \E decoded \in BOOLEAN :
              IF decoded
              THEN /\ workers' = [workers EXCEPT ![j] = "backend"]
                   /\ UNCHANGED <<jobs, active_jobs, completed_jobs, failed_jobs>>
              ELSE ProcessFailed(j, "payload")
       ELSE ProcessFailed(j, "Unknown job type")
    /\ UNCHANGED <<node_config, node_pc, node_is_running, is_registered,
                   dispatcher_stub, loops, register_calls, heartbeat_failures,
                   callback_result>>
    /\ UNCHANGED outside_node

\* _process_job(job) from the return of the backend to the await of the
\* callback or the end of the task
_process_job_result(j) ==
    /\ workers[j] = "backend" /\ node_pc # "stop_unregistered"
    /\ \E returned \in BOOLEAN :
         IF returned /\ j \in active_jobs
         THEN /\ jobs' = [jobs EXCEPT ![j].status = "completed"]
              /\ active_jobs' = active_jobs \ {j}
              /\ completed_jobs' = completed_jobs \cup {j}
              /\ workers' = [workers EXCEPT ![j] = AfterFiling(j)]
              /\ UNCHANGED failed_jobs
         ELSE ProcessFailed(j, IF returned THEN "KeyError" ELSE "bridge error")
    /\ UNCHANGED <<node_config, node_pc, node_is_running, is_registered,
                   dispatcher_stub, loops, register_calls, heartbeat_failures,
                   callback_result>>
    /\ UNCHANGED outside_node

\* the responses to the POST of _send_job_callback
Responses == {"2xx", "non2xx", "exception"}

\* _send_job_callback(job): the POST has been answered or has raised
_send_job_callback(j) ==
    /\ workers[j] = "callback" /\ node_pc # "stop_unregistered"
    /\ \E response \in Responses :
         callback_result' = [callback_result EXCEPT ![j] = response]
    /\ workers' = [workers EXCEPT ![j] = "done"]
    /\ UNCHANGED <<node_config, node_pc, node_is_running, is_registered,
                   dispatcher_stub, jobs, active_jobs, completed_jobs, failed_jobs,
                   loops, register_calls, heartbeat_failures>>
    /\ UNCHANGED outside_node

\* a job arrives at the running node: self.jobs[job_id] = job (the RPC
\* handlers that would do it are commented out); job ids in order of arrival
Execute(j, type, prio, cb) ==
    /\ node_is_running /\ node_pc # "stop_unregistered"
    /\ jobs[j].status = "none"
    /\ \A k \in 1..(j - 1) : jobs[k].status # "none"
    /\ jobs' = [jobs EXCEPT ![j] = NodeJob(type, prio, cb)]
    /\ UNCHANGED <<node_config, node_pc, node_is_running, is_registered,
                   dispatcher_stub, active_jobs, completed_jobs, failed_jobs,
                   loops, workers, register_calls, heartbeat_failures,
                   callback_result>>
    /\ UNCHANGED outside_node

\* a node of any of the configurations
InitNode ==
    /\ InitDispatcher("random")
    /\ InitEndpoints
    /\ \E maxc \in 1..MaxLoad, caps \in NodeCapabilitySets :
         InitClusterNode(NodeConfig(maxc, caps))
    /\ InitPowerShellBridge(3)
    /\ InitUXPBridge

\* one ClusterNode from its construction to the end of its stop()
NextNode ==
    \/ ClusterNode_start
    \/ ClusterNode_stop_unregister
    \/ ClusterNode_stop_cancel
    \/ ClusterNode_stop_return
    \/ _heartbeat_task
    \/ _job_processor_task
    \/ \E j \in NodeJobIds : _process_job(j)
    \/ \E j \in NodeJobIds : _process_job_result(j)
    \/ \E j \in NodeJobIds : _send_job_callback(j)
    \/ \E j \in NodeJobIds, type \in NodeJobTypes, prio \in Priorities, cb \in BOOLEAN :
          Execute(j, type, prio, cb)

SpecNode == InitNode /\ [][NextNode]_vars

\* ---------------------------------------------------- the PowerShell bridge
\* PowerShellBridge of bridge/powershell_backend.py.  The subprocess is the
\* environment: each run of it ends with an exit code and an output, or with
\* an exception.  The text of the script does not influence how
\* execute_script continues, so execute_script has no script argument here.

\* the state outside the PowerShellBridge
outside_bridge == <<dispatcher_vars, cancel_reply, stream_vars, last_pick, last_send,
                    cluster_node_vars, uxp_vars>>

\* the largest max_retries of a bridge (the constructor sets 3)
MaxRetries == 3

\* what the subprocess writes to stdout, and to stderr when it fails
RawOutputs == {"{}\n", "Test\n", "42", ""}

RawErrors == {"COM error\n", ""}

\* str.strip() on the outputs above
Strip(s) ==
    CASE s = "{}\n" -> "{}"
      [] s = "Test\n" -> "Test"
      [] s = "COM error\n" -> "COM error"
      [] OTHER -> s

\* json.loads(stdout), and stdout itself when it is not JSON: the type of the
\* value and the text it was read from
ParseOutput(stdout) ==
    CASE stdout = "{}" -> [kind |-> "dict", text |-> stdout]
      [] stdout = "42" -> [kind |-> "int", text |-> stdout]
      [] OTHER -> [kind |-> "str", text |-> stdout]

\* how one await of _run_powershell_script ends: with (stdout, stderr,
\* returncode), of which stdout counts when returncode = 0 and stderr when
\* not, or with the RuntimeError of its except clause
RunOutcomes ==
    [how : {"exit0"}, text : {Strip(s) : s \in RawOutputs}]
        \cup [how : {"exit1"}, text : {Strip(s) : s \in RawErrors}]
        \cup [how : {"raised"}, text : {"PowerShell script execution failed: spawn"}]

\* the exception a failed attempt leaves in `e`
AttemptError(outcome) ==
    IF outcome.how = "exit1"
    THEN [kind |-> "RuntimeError", text |-> "Script execution failed: " \o outcome.text]
    ELSE [kind |-> "RuntimeError", text |-> outcome.text]

\* a loop condition that stops one attempt early
WithinRetries_one_less(count) == count < bridge_max_retries

\* while retry_count <= self.max_retries
WithinRetries(count) == count <= bridge_max_retries

\* execute_script(script) up to its first await: the first attempt runs
\* without a sleep; `raise last_error` with last_error = None is a TypeError
PowerShellBridge_execute_script ==
    /\ script_pc \in {"idle", "returned", "raised"}
    /\ retry_count' = 0
    /\ last_error' = NoValue
    /\ attempts' = << >>
    /\ IF WithinRetries(0)
       THEN script_pc' = "running" /\ script_return' = NoValue
       ELSE /\ script_pc' = "raised"
            /\ script_return' = [kind |-> "TypeError",
                                 text |-> "exceptions must derive from BaseException"]
    /\ UNCHANGED <<bridge_max_retries, cache_vars, outside_bridge>>

\* the await of _run_powershell_script ends with `outcome`, and execute_script
\* runs on to its return, to its raise or to the sleep before the next attempt
_run_powershell_script(outcome) ==
    /\ script_pc = "running"
    /\ attempts' = Append(attempts, outcome)
    /\ IF outcome.how = "exit0"
       THEN /\ script_pc' = "returned"
            /\ script_return' = ParseOutput(outcome.text)
            /\ UNCHANGED <<retry_count, last_error>>
       ELSE /\ last_error' = AttemptError(outcome)
            /\ retry_count' = retry_count + 1
            /\ IF WithinRetries(retry_count + 1)
               THEN script_pc' = "sleeping" /\ UNCHANGED script_return
               ELSE script_pc' = "raised" /\ script_return' = AttemptError(outcome)
    /\ UNCHANGED <<bridge_max_retries, cache_vars, outside_bridge>>

\* asyncio.sleep(self.retry_delay) returns and the next attempt starts
PowerShellBridge_execute_script_retry ==
    /\ script_pc = "sleeping"
    /\ script_pc' = "running"
    /\ UNCHANGED <<bridge_max_retries, retry_count, last_error, script_return,
                   attempts, cache_vars, outside_bridge>>

\* a bridge with any number of retries
InitExecuteScript ==
    /\ InitDispatcher("random")
    /\ InitEndpoints
    /\ InitClusterNode(NodeConfig(5, DefaultCapabilities))
    /\ \E retries \in 0..MaxRetries : InitPowerShellBridge(retries)
    /\ InitUXPBridge

\* calls of execute_script, one after the other
NextExecuteScript ==
    \/ PowerShellBridge_execute_script
    \/ \E outcome \in RunOutcomes : _run_powershell_script(outcome)
    \/ PowerShellBridge_execute_script_retry

SpecExecuteScript == InitExecuteScript /\ [][NextExecuteScript]_vars

\* the calls of _run_powershell_script_sync on one bridge
MaxCalls == 3

\* the scripts handed to _run_powershell_script_sync
Scripts == {"Test script", "Get-Version", "Close-Document"}

\* hash(script): equal scripts have equal hashes, and hash() is not injective
script_hash(script) ==
    CASE script = "Test script" -> 1
      [] script = "Get-Version" -> 2
      [] OTHER -> 1

\* how a call goes on when the hash is not in the cache: the script file
\* cannot be created (the with statement of line 68 is outside the try), or
\* subprocess.run returns with a return code and an output, or it raises
\* TimeoutExpired, or it raises another exception
SyncOutcomes ==
    [how : {"exit0", "exit1"}, stdout : RawOutputs]
        \cup [how : {"tempfile", "timeout", "raised"}, stdout : {""}]

\* a cache that keeps the output of every run that returned
CacheAfter_every_run(cache, h, outcome) ==
    [x \in DOMAIN cache \cup {h} |-> IF x = h THEN Strip(outcome.stdout) ELSE cache[x]]

\* self._script_cache after a run that was stored under h: the output is
\* stored only when returncode == 0
CacheAfter(cache, h, outcome) ==
    IF outcome.how = "exit0"
    THEN [x \in DOMAIN cache \cup {h} |-> IF x = h THEN Strip(outcome.stdout) ELSE cache[x]]
    ELSE cache

\* what a call that was not answered from the cache returns or raises
SyncResult(outcome) ==
    CASE outcome.how \in {"exit0", "exit1"} ->
             [kind |-> "str", text |-> Strip(outcome.stdout)]
      [] outcome.how = "timeout" ->
             [kind |-> "TimeoutError",
              text |-> "PowerShell script execution timed out after 30 seconds"]
      [] outcome.how = "raised" ->
             [kind |-> "RuntimeError", text |-> "PowerShell script execution failed: "]
      [] OTHER -> [kind |-> "OSError", text |-> ""]

\* _run_powershell_script_sync(script): a synchronous method, one step
_run_powershell_script_sync(script, outcome) ==
    /\ Len(sync_calls) < MaxCalls
    /\ IF script_hash(script) \in DOMAIN _script_cache
       THEN /\ sync_calls' = Append(sync_calls,
                                    [script |-> script, how |-> "cached",
                                     result |-> [kind |-> "str",
                                                 text |-> _script_cache[script_hash(script)]]])
            /\ UNCHANGED _script_cache
       ELSE /\ sync_calls' = Append(sync_calls,
                                    [script |-> script, how |-> outcome.how,
                                     result |-> SyncResult(outcome)])
            /\ _script_cache' = IF outcome.how = "tempfile"
                                THEN _script_cache
                                ELSE CacheAfter(_script_cache, script_hash(script), outcome)
    /\ UNCHANGED <<execute_vars, outside_bridge>>

\* calls of _run_powershell_script_sync on a new bridge, one after the other
NextScriptCache ==
    \E script \in Scripts, outcome \in SyncOutcomes :
        _run_powershell_script_sync(script, outcome)

SpecScriptCache == Init /\ [][NextScriptCache]_vars

\* ----------------------------------------------------------- the UXP bridge
\* UXPBridge of bridge/uxp_backend.py.  The plugin is the environment: it
\* connects and disconnects, and it sends any message at any time, with any
\* id.  Several calls of _send_command may be under way at once.

\* the state outside the UXPBridge
outside_uxp == <<dispatcher_vars, cancel_reply, stream_vars, last_pick, last_send,
                 cluster_node_vars, bridge_vars>>

\* the commands of the messages _process_message resolves a request with
ResponseCommands == {"action_result", "document_info", "error"}

\* the positions of a call of _send_command that has ended
Ended == {"no_client", "send_failed", "returned", "error", "timeout"}

\* _handle_client: a plugin connects (self.clients.add), or its connection
\* ends (self.clients.remove in the finally clause)
_handle_client ==
    /\ clients' = IF clients = {} THEN {"plugin"} ELSE {}
    /\ UNCHANGED <<message_id, pending_requests, futures, command_pc, command_id>>
    /\ UNCHANGED outside_uxp

\* _send_command(command, params) up to `await client.send(...)`
_send_command(c) ==
    /\ command_pc[c] = "none"
    /\ \A k \in 1..(c - 1) : command_pc[k] # "none"
    /\ IF clients = {}
       THEN /\ command_pc' = [command_pc EXCEPT ![c] = "no_client"]
            /\ UNCHANGED <<message_id, pending_requests, futures, command_id>>
       ELSE /\ message_id' = message_id + 1
            /\ command_id' = [command_id EXCEPT ![c] = message_id + 1]
            /\ futures' = [futures EXCEPT ![message_id + 1] = "pending"]
            /\ pending_requests' = pending_requests \cup {message_id + 1}
            /\ command_pc' = [command_pc EXCEPT ![c] = "sending"]
    /\ UNCHANGED clients
    /\ UNCHANGED outside_uxp

\* where a call stands when it awaits wait_for(future): wait_for returns or
\* raises at once when the future is done
Awaiting(id) ==
    CASE futures[id] = "result" -> "returned"
      [] futures[id] = "exception" -> "error"
      [] OTHER -> "waiting"

\* `await client.send(json.dumps(message))` returns, or raises because the
\* connection is closed; the statement is outside the try of _send_command
client_send(c, sent) ==
    /\ command_pc[c] = "sending"
    /\ command_pc' = [command_pc EXCEPT ![c] = IF sent THEN Awaiting(command_id[c])
                                                 ELSE "send_failed"]
    /\ UNCHANGED <<clients, message_id, pending_requests, futures, command_id>>
    /\ UNCHANGED outside_uxp

\* _process_message(websocket, message) for a message with the id `id` and a
\* command of ResponseCommands: set_result or set_exception on a cancelled
\* future raises InvalidStateError, which the except clause answers with an
\* error message to the plugin
_process_message(id, command) ==
    /\ clients # {}
    /\ IF id \in pending_requests
       THEN /\ pending_requests' = pending_requests \ {id}
            /\ futures' = IF futures[id] = "pending"
                          THEN [futures EXCEPT ![id] = IF command = "error"
                                                       THEN "exception" ELSE "result"]
                          ELSE futures
       ELSE UNCHANGED <<pending_requests, futures>>
    /\ UNCHANGED <<clients, message_id, command_pc, command_id>>
    /\ UNCHANGED outside_uxp

\* wait_for(future, timeout=30.0) ends with the result or the exception of
\* the future
wait_for(c) ==
    /\ command_pc[c] = "waiting"
    /\ futures[command_id[c]] \in {"result", "exception"}
    /\ command_pc' = [command_pc EXCEPT ![c] = Awaiting(command_id[c])]
    /\ UNCHANGED <<clients, message_id, pending_requests, futures, command_id>>
    /\ UNCHANGED outside_uxp

\* the 30 seconds of wait_for have passed: the future is cancelled, and the
\* call is scheduled to go on with TimeoutError
wait_for_timeout(c) ==
    /\ command_pc[c] = "waiting"
    /\ futures[command_id[c]] = "pending"
    /\ futures' = [futures EXCEPT ![command_id[c]] = "cancelled"]
    /\ command_pc' = [command_pc EXCEPT ![c] = "timing_out"]
    /\ UNCHANGED <<clients, message_id, pending_requests, command_id>>
    /\ UNCHANGED outside_uxp

\* the except clause of _send_command: pending_requests.pop(message_id, None)
\* and raise TimeoutError
send_command_timed_out(c) ==
    /\ command_pc[c] = "timing_out"
    /\ pending_requests' = pending_requests \ {command_id[c]}
    /\ command_pc' = [command_pc EXCEPT ![c] = "timeout"]
    /\ UNCHANGED <<clients, message_id, futures, command_id>>
    /\ UNCHANGED outside_uxp

\* calls of _send_command on one bridge, and what the plugin does
NextUXP ==
    \/ _handle_client
    \/ \E c \in CommandIds : _send_command(c)
    \/ \E c \in CommandIds, sent \in BOOLEAN : client_send(c, sent)
    \/ \E id \in CommandIds, command \in ResponseCommands : _process_message(id, command)
    \/ \E c \in CommandIds : wait_for(c)
    \/ \E c \in CommandIds : wait_for_timeout(c)
    \/ \E c \in CommandIds : send_command_timed_out(c)

SpecUXP == Init /\ [][NextUXP]_vars

\* --------------------------------------------------------- the specification
Next ==
    \/ start
    \/ stop
    \/ stop_return
    \/ \E n \in NodeIds, maxc \in 1..MaxConcurrent :
          RegisterNode(n, maxc, DefaultCapabilities)
    \/ \E j \in JobIds, prio \in Priorities, t \in Times :
          add_job(j, prio, t, "open_file")
    \/ _check_node_health
    \/ _job_dispatcher_task
    \/ \E j \in JobIds, n \in NodeIds : SimStart(j, n)
    \/ \E j \in JobIds, n \in NodeIds : SimFinish(j, n)

\* the dispatcher without its cleanup loop
Spec == Init /\ [][Next]_vars

\* the running dispatcher, up to its stop()
NextRunning ==
    \/ start
    \/ \E n \in NodeIds, maxc \in 1..MaxConcurrent :
          RegisterNode(n, maxc, DefaultCapabilities)
    \/ \E j \in JobIds, prio \in Priorities, t \in Times :
          add_job(j, prio, t, "open_file")
    \/ _check_node_health
    \/ _job_dispatcher_task
    \/ \E j \in JobIds, n \in NodeIds : SimStart(j, n)
    \/ \E j \in JobIds, n \in NodeIds : SimFinish(j, n)

\* a dispatcher configured with routing_strategy = LEAST_BUSY
InitRouting ==
    /\ InitDispatcher("least_busy")
    /\ InitServer

\* the running least-busy dispatcher with nodes of several capacities, which
\* the health check takes out of the available ones and brings back
NextRouting ==
    \/ start
    \/ \E n \in NodeIds, maxc \in 1..MaxLoad : RegisterNode(n, maxc, DefaultCapabilities)
    \/ \E j \in JobIds : add_job(j, 0, 0, "open_file")
    \/ _check_node_health
    \/ _job_dispatcher_task
    \/ \E j \in JobIds, n \in NodeIds : SimStart(j, n)
    \/ \E j \in JobIds, n \in NodeIds : SimFinish(j, n)

SpecRouting == InitRouting /\ [][NextRouting]_vars

\* the capability lists of the nodes of a capability-based dispatcher
CapabilitySets == {{"open_file"}, {"open_file", "auto_retouch"}}

\* a dispatcher configured with routing_strategy = CAPABILITY_BASED
InitCapability ==
    /\ InitDispatcher("capability_based")
    /\ InitServer

\* the running capability-based dispatcher with nodes of several capability
\* lists and jobs of several types
NextCapability ==
    \/ start
    \/ \E n \in NodeIds, maxc \in 1..MaxLoad, caps \in CapabilitySets :
          RegisterNode(n, maxc, caps)
    \/ \E j \in JobIds, type \in JobTypes : add_job(j, 0, 0, type)
    \/ _job_dispatcher_task
    \/ \E j \in JobIds, n \in NodeIds : SimStart(j, n)
    \/ \E j \in JobIds, n \in NodeIds : SimFinish(j, n)

SpecCapability == InitCapability /\ [][NextCapability]_vars

\* the number of nodes of a round-robin dispatcher
MaxRing == 3

RingIds == 1..MaxRing

\* a dispatcher configured with routing_strategy = ROUND_ROBIN
InitRoundRobin ==
    /\ InitDispatcherOf("round_robin", RingIds)
    /\ InitServer

\* the running round-robin dispatcher with its cleanup loop, up to the
\* assignment of the jobs (their execution is left out); every node can hold
\* MaxLoad jobs
NextRoundRobin ==
    \/ start
    \/ \E n \in RingIds : RegisterNode(n, MaxLoad, DefaultCapabilities)
    \/ \E j \in JobIds : add_job(j, 0, 0, "open_file")
    \/ _check_node_health
    \/ _cleanup_task
    \/ _job_dispatcher_task_recorded

SpecRoundRobin == InitRoundRobin /\ [][NextRoundRobin]_vars

\* the running dispatcher with nodes that take up to MaxLoad jobs, the history
\* keeping each send of a job to a node
NextSend ==
    \/ start
    \/ \E n \in NodeIds, maxc \in 1..MaxLoad :
          RegisterNode(n, maxc, DefaultCapabilities)
    \/ \E j \in JobIds, prio \in Priorities : add_job(j, prio, 0, "open_file")
    \/ _check_node_health
    \/ _job_dispatcher_task_logged
    \/ \E j \in JobIds, n \in NodeIds : SimStart(j, n)
    \/ \E j \in JobIds, n \in NodeIds : SimFinish(j, n)

SpecSend == Init /\ [][NextSend]_vars

\* the running dispatcher whose jobs are all alike
NextLive ==
    \/ start
    \/ \E n \in NodeIds, maxc \in 1..MaxConcurrent :
          RegisterNode(n, maxc, DefaultCapabilities)
    \/ \E j \in JobIds : add_job(j, 0, 0, "open_file")
    \/ _check_node_health
    \/ _job_dispatcher_task
    \/ \E j \in JobIds, n \in NodeIds : SimStart(j, n)
    \/ \E j \in JobIds, n \in NodeIds : SimFinish(j, n)

\* the event loop runs every task that is ready: the dispatch loop takes
\* another iteration and does not fail to send for ever, an execution task
\* that was created starts, and its sleep ends
Fairness ==
    /\ WF_vars(_job_dispatcher_task)
    /\ \A j \in JobIds, n \in NodeIds :
          WF_vars(SimStart(j, n)) /\ WF_vars(SimFinish(j, n))

SpecLive == Init /\ [][NextLive]_vars /\ Fairness

\* the running dispatcher with its cleanup loop
NextCleanup == NextRunning \/ _cleanup_task

SpecCleanup == Init /\ [][NextCleanup]_vars

\* the running dispatcher behind the /cancel_job endpoint
NextCancel == NextRunning \/ \E j \in JobIds : cancel_job(j)

SpecCancel == Init /\ [][NextCancel]_vars


\* ================================================================== claims
\* a job the dispatch loop assigns in this step
Dispatched(j) == job[j].status = "queued" /\ job'[j].status = "assigned"

\* a job requeued in this step
Requeued(j) == job[j].status \in {"assigned", "running"} /\ job'[j].status = "queued"

\* a queued job that was requeued from a node and is still in its in-flight set
AwaitsRetry(j) ==
    /\ job[j].status = "queued"
    /\ \E n \in NodeIds : j \in node[n].current_jobs

\* C1: no job that is Assigned or Running is in the in-flight set
\* (current_jobs) of two distinct nodes at the same time.
C1_NoDoubleAssignment ==
    \A j \in JobIds : \A n1, n2 \in NodeIds :
        (/\ n1 # n2
         /\ j \in node[n1].current_jobs
         /\ j \in node[n2].current_jobs)
        => job[j].status \notin {"assigned", "running"}

\* C2: once a job's status is Completed, Failed or Cancelled, no step
\* changes it.
C2_TerminalAbsorbing ==
    [][\A j \in JobIds : job[j].status \in Terminal => job'[j].status = job[j].status]_vars

\* C3: in every reachable state every node has
\* active_jobs <= max_concurrent_jobs.
C3_CapacityRespected ==
    \A n \in NodeIds : node[n].active_jobs <= node[n].max_concurrent_jobs

\* C3 witness: a registered node filled to its capacity by assignments
C3_Witness ==
    \E n \in NodeIds :
        /\ Registered(n)
        /\ node[n].max_concurrent_jobs > 0
        /\ node[n].active_jobs = node[n].max_concurrent_jobs

\* C4: in every reachable state every node's counter active_jobs equals the
\* number of job ids in its current_jobs.
C4_ActiveMatchesInFlight ==
    \A n \in NodeIds : node[n].active_jobs = Cardinality(node[n].current_jobs)

\* C4 witness: a node that went through assignment, requeue and completion:
\* its counter is back to 0 while another node runs the job it lost
C4_Witness ==
    \E n1, n2 \in NodeIds : \E j \in JobIds :
        /\ n1 # n2
        /\ node[n1].status = "unhealthy"
        /\ node[n1].active_jobs = 0
        /\ tasks[<<j, n1>>] = "none"
        /\ tasks[<<j, n2>>] = "sleeping"
        /\ node[n2].active_jobs = 1

\* C5: every job whose status is Assigned or Running has a non-null
\* assigned_node_id that names a registered node whose current_jobs contains
\* the job's id.
C5_AssignedJobsAreOwned ==
    \A j \in job_keys :
        job[j].status \in {"assigned", "running"}
        => /\ job[j].assigned_node_id # 0
           /\ Registered(job[j].assigned_node_id)
           /\ j \in node[job[j].assigned_node_id].current_jobs

\* C6: every entry of job_queue refers to a job of the job table whose
\* status is Queued.
C6_QueueHoldsOnlyQueued ==
    \A e \in BagToSet(job_queue) :
        e[3] \in job_keys /\ job[e[3]].status = "queued"

\* C7: the dispatch loop never assigns a job while a job of higher priority
\* is Queued, whatever their creation times.
C7_PriorityOrder ==
    [][\A j, k \in JobIds :
          (Dispatched(j) /\ k # j /\ k \in job_keys /\ job[k].status = "queued")
          => job[k].priority <= job[j].priority]_vars

\* C7 witness: the higher-priority job, created later, has been assigned
\* while the lower-priority older job is still Queued
C7_Witness ==
    \E j, k \in JobIds :
        /\ job[j].status = "assigned" /\ job[k].status = "queued"
        /\ job[j].priority > job[k].priority
        /\ job[j].created_at > job[k].created_at

\* C8: among Queued jobs of equal priority the dispatch loop assigns the one
\* with the older created_at first, and on equal created_at the one with the
\* smaller id.
C8_FifoWithinPriority ==
    [][\A j, k \in JobIds :
          (/\ Dispatched(j) /\ k # j /\ k \in job_keys
           /\ job[k].status = "queued"
           /\ job[k].priority = job[j].priority)
          => \/ job[j].created_at < job[k].created_at
             \/ job[j].created_at = job[k].created_at /\ j < k]_vars

\* C8 witness: of two jobs of equal priority the older one, which has the
\* larger id, has been assigned while the younger one is still Queued
C8_Witness ==
    \E j, k \in JobIds :
        /\ job[j].status = "assigned" /\ job[k].status = "queued"
        /\ job[j].priority = job[k].priority
        /\ job[j].created_at < job[k].created_at
        /\ j > k

\* C9: a requeue leaves the job Queued with its created_at unchanged, with
\* assigned_node_id, assigned_at and started_at null, and with one more queue
\* entry under the key built from the original created_at; and the dispatch
\* loop never assigns a job while a requeued job of the same priority and an
\* older created_at is waiting.
C9_RetryKeepsPosition ==
    [][/\ \A j \in JobIds :
            Requeued(j)
            => /\ job'[j].created_at = job[j].created_at
               /\ job'[j].priority = job[j].priority
               /\ job'[j].assigned_node_id = 0
               /\ job'[j].assigned_at = "null"
               /\ job'[j].started_at = "null"
               /\ CopiesIn(QueueKey(job[j], j), job_queue')
                    = CopiesIn(QueueKey(job[j], j), job_queue) + 1
       /\ \A j, k \in JobIds :
            (/\ Dispatched(k) /\ j # k
             /\ AwaitsRetry(j)
             /\ job[j].priority = job[k].priority)
            => ~(job[j].created_at < job[k].created_at)]_vars

\* C9 witness: a requeued job has been assigned again, to a second node,
\* ahead of a Queued job of the same priority that was created after it
C9_Witness ==
    \E j, k \in JobIds : \E n1, n2 \in NodeIds :
        /\ n1 # n2
        /\ j \in node[n1].current_jobs /\ node[n1].status = "unhealthy"
        /\ job[j].status = "assigned" /\ job[j].assigned_node_id = n2
        /\ job[k].status = "queued"
        /\ job[k].priority = job[j].priority
        /\ job[k].created_at > job[j].created_at

\* C10: no node is Unhealthy while it still owns an Assigned or Running job:
\* the health-check step that makes a node Unhealthy requeues its jobs.
C10_UnhealthyOwnsNothing ==
    \A n \in NodeIds :
        node[n].status = "unhealthy"
        => \A j \in node[n].current_jobs :
              ~(/\ job[j].status \in {"assigned", "running"}
                /\ job[j].assigned_node_id = n)

\* DispatcherConfig.max_retries, configured as 1 (the default is 3); no
\* method of the dispatcher reads it
max_retries == 1

\* the lost nodes that still hold j in current_jobs although j is no longer
\* assigned to them: each one stands for an earlier requeue of j, since only
\* _requeue_node_jobs takes a job away from the node it was assigned to
RequeuedFrom(j) ==
    {n \in NodeIds : /\ node[n].status = "unhealthy"
                     /\ j \in node[n].current_jobs
                     /\ job[j].assigned_node_id # n}

\* C11: a job that has already been requeued max_retries times is not
\* requeued again: the node loss that would requeue it once more moves it to
\* Failed instead of Queued.
C11_RetriesBounded ==
    [][\A j \in JobIds :
          Cardinality(RequeuedFrom(j)) >= max_retries => ~Requeued(j)]_vars

\* a job that cancel_job found Queued: Cancelled without a node and without
\* a start time (a job cancelled in flight keeps assigned_node_id or started_at)
CancelledWhileQueued(j) ==
    /\ j \in job_keys
    /\ job[j].status = "cancelled"
    /\ job[j].assigned_node_id = 0
    /\ job[j].started_at = "null"

\* C12: a job cancelled while it was Queued is in no node's in-flight set
\* (current_jobs), in the state after the cancel and in every later one.
C12_CancelledQueuedJobNotInFlight ==
    \A j \in JobIds :
        CancelledWhileQueued(j) => \A n \in NodeIds : j \notin node[n].current_jobs

\* C13: a cancel request for a job that is already Completed, Failed or
\* Cancelled leaves the job table as it is and is answered with success, the
\* job's terminal status and the already-terminal indicator.
C13_CancelTerminalIsNoOp ==
    [][\A j \in JobIds :
          (/\ cancel_reply' # cancel_reply
           /\ cancel_reply'.job_id = j
           /\ CancelOutcome(j) = "already_terminal")
          => /\ job' = job
             /\ cancel_reply'.http = 200
             /\ cancel_reply'.status = job[j].status
             /\ cancel_reply'.message = "already terminal"]_vars

\* C14: while the dispatcher runs its cleanup loop is alive, whatever the
\* states of the nodes, so that every terminal job older than the retention
\* window is eventually dropped from the job table.
C14_CleanupKeepsRunning ==
    (started /\ is_running) => cleanup_alive

\* the positions of the terminal frames ("complete", "error") of the stream
TerminalFrames == {i \in 1..Len(frames) : frames[i].type \in {"complete", "error"}}

\* the positions of the "progress" frames of the stream
ProgressFrames == {i \in 1..Len(frames) : frames[i].type = "progress"}

\* C15: a thumbnail stream carries at most one terminal frame (complete or
\* error), exactly one once it has ended, and no start, progress, complete or
\* error frame follows the terminal frame.
C15_OneTerminalFrame ==
    /\ Cardinality(TerminalFrames) <= 1
    /\ stream_pc = "closed" => Cardinality(TerminalFrames) = 1
    /\ \A i \in TerminalFrames : \A k \in (i + 1)..Len(frames) :
          frames[k].type \notin {"start", "progress", "complete", "error"}

\* C16: the percent values of the progress frames of a stream are integers in
\* 0..100 and never decrease along the stream, for every backend and whether
\* the stream ends in complete or in error.
C16_PercentMonotone ==
    /\ \A i \in ProgressFrames : frames[i].percent \in 0..100
    /\ \A i, k \in ProgressFrames : i < k => frames[i].percent <= frames[k].percent

\* C16 witness: a stream that has sent all four progress frames and then
\* ended in error
C16_Witness ==
    /\ stream_pc = "closed"
    /\ Cardinality(ProgressFrames) = 4
    /\ frames[Len(frames)].type = "error"

\* C17: the first frame of every stream is a start frame that carries the
\* requested width, height and format, and the stream has exactly one start
\* frame, also when it ends in error.
C17_StartFrameFirst ==
    frames # << >>
    => /\ frames[1].type = "start"
       /\ frames[1].data = <<stream_req.width, stream_req.height, stream_req.format>>
       /\ Cardinality({i \in 1..Len(frames) : frames[i].type = "start"}) = 1

\* C18: a stream for width 256, height 256, format jpeg that has ended with
\* a complete frame consists, for every backend, of exactly the six frames
\* start{256,256,jpeg}, progress(opening_file, 10),
\* progress(generating_thumbnail, 30), progress(executing_script, 50),
\* progress(encoding_image, 80), complete, with no frame after complete.
C18_SuccessFrames ==
    (/\ stream_pc = "closed"
     /\ stream_req = [bridge_mode |-> stream_req.bridge_mode, width |-> 256,
                      height |-> 256, format |-> "jpeg"]
     /\ \E i \in 1..Len(frames) : frames[i].type = "complete")
    => /\ Len(frames) = 6
       /\ frames[1] = Frame("start", "", 0, <<256, 256, "jpeg">>)
       /\ frames[2] = Frame("progress", "opening_file", 10, << >>)
       /\ frames[3] = Frame("progress", "generating_thumbnail", 30, << >>)
       /\ frames[4] = Frame("progress", "executing_script", 50, << >>)
       /\ frames[5] = Frame("progress", "encoding_image", 80, << >>)
       /\ frames[6].type = "complete"

\* ------------------------------------------------------------------ routing
\* the capability tags a job type requires: the tag that carries its name
Required(type) == {type}

\* C19: the dispatcher assigns a job only to a node whose declared
\* capabilities contain every capability the job's type requires; a job for
\* which no available node is capable is not assigned and stays Queued.
C19_CapableNodeOnly ==
    [][\A j \in JobIds :
          Dispatched(j) =>
              Required(job[j].job_type) \subseteq node[job'[j].assigned_node_id].capabilities]_vars

\* C20: under least_busy the node a job is assigned to is available and no
\* available node has a smaller load_factor; the assignment adds one to the
\* active count of that node and changes no other node.
C20_LeastBusyAssignment ==
    [][\A j \in JobIds :
          (routing_strategy = "least_busy" /\ Dispatched(j)) =>
              LET n == job'[j].assigned_node_id
              IN /\ Registered(n) /\ is_available(node[n])
                 /\ \A m \in RegisteredNodes :
                        is_available(node[m]) =>
                            ~LoadLess(load_factor(node[m]), load_factor(node[n]))
                 /\ node'[n].active_jobs = node[n].active_jobs + 1
                 /\ \A m \in NodeIds \ {n} : node'[m] = node[m]]_vars

\* both jobs are assigned under least_busy, the second one to the idle node
\* although the node before it in self.nodes, half loaded, was still available
C20_Witness ==
    /\ routing_strategy = "least_busy"
    /\ Len(node_keys) = 2
    /\ \A n \in NodeIds : node[n].status = "healthy" /\ node[n].active_jobs = 1
    /\ node[node_keys[1]].max_concurrent_jobs = 2
    /\ \A j \in JobIds : job[j].status = "assigned"
    /\ job[1].assigned_node_id # job[2].assigned_node_id

\* C21: when several available nodes tie on the metric of the policy, the
\* job goes to the one with the lowest node id, whatever the order in which
\* the nodes were registered.
C21_TieBrokenByNodeId ==
    [][\A j \in JobIds :
          Dispatched(j) =>
              LET n == job'[j].assigned_node_id
              IN \A m \in RegisteredNodes :
                    (/\ is_available(node[m])
                     /\ ~LoadLess(load_factor(node[m]), load_factor(node[n]))
                     /\ ~LoadLess(load_factor(node[n]), load_factor(node[m])))
                    => n <= m]_vars

\* _select_node returns node n in this step
Picked(n) ==
    /\ last_pick'.node = n
    /\ last_pick' # last_pick \/ \E j \in JobIds : Dispatched(j)

\* C22: under round_robin a pick returns an available node and moves the
\* rotation index to it, and a node is not picked twice in a row while
\* another node has stayed available since its previous pick (the other node
\* was available at that pick, has received no job since, and is still
\* available).
C22_RoundRobinRotation ==
    [][\A n \in RingIds :
          Picked(n) =>
              /\ Registered(n) /\ is_available(node[n])
              /\ round_robin_index' < Len(node_keys)
              /\ node_keys[round_robin_index' + 1] = n
              /\ last_pick.node = n =>
                     \A m \in last_pick.available \ {n} :
                        ~(Registered(m) /\ is_available(node[m]))]_vars

\* ------------------------------------------------------------- cluster node
\* C23: a node that shuts down unregisters from the dispatcher only when it
\* has no Active job left: the Active jobs were cancelled before.
C23_CancelBeforeUnregister ==
    [][(is_registered /\ ~is_registered') => active_jobs = {}]_vars

\* C24: when start() has returned without raising, the node has requested
\* its registration from the dispatcher and is registered.
C24_StartedMeansRegistered ==
    node_pc = "started" => (register_calls > 0 /\ is_registered)

\* C25: the third consecutive failed heartbeat send makes the node register
\* with the dispatcher again.
C25_ReRegisterAfterThreeFailures ==
    [][(heartbeat_failures = 2 /\ heartbeat_failures' = 3)
          => register_calls' > register_calls]_vars

\* C26: the number of Active jobs of a node never exceeds max_concurrent_jobs.
C26_ActiveWithinLimit ==
    Cardinality(active_jobs) <= node_config.max_concurrent_jobs

\* the running node is at its limit of one job while another job waits in
\* the Queued set
C26_Witness ==
    /\ node_is_running /\ loops.processor = "running"
    /\ node_config.max_concurrent_jobs = 1
    /\ Cardinality(active_jobs) = 1
    /\ pending_jobs # {}

\* C27: a job whose type the node did not declare among its capabilities is
\* never passed to the backend; its worker task ends without raising and
\* leaves the job Failed (the wording of the recorded error is left open).
C27_UnsupportedNeverReachesBackend ==
    \A j \in NodeJobIds :
        (jobs[j].status # "none" /\ jobs[j].job_type \notin node_config.capabilities)
        => /\ workers[j] \notin {"backend", "raised"}
           /\ workers[j] \in {"callback", "done"}
                 => jobs[j].status \in {"failed", "cancelled"}

\* C28: the callback POST of a job is issued only when the job has a
\* callback target and after the job has reached a terminal status and has
\* been filed; the answer to the POST, or its failure, changes neither the
\* job nor the sets Active, Completed and Failed.
C28_CallbackAfterTerminal ==
    [][\A j \in NodeJobIds :
          /\ (workers[j] # "callback" /\ workers'[j] = "callback")
                => /\ jobs'[j].callback_url
                   /\ jobs'[j].status \in {"completed", "failed"}
                   /\ j \notin active_jobs'
                   /\ jobs'[j].status = "completed" <=> j \in completed_jobs'
                   /\ jobs'[j].status = "failed" <=> j \in failed_jobs'
          /\ (workers[j] = "callback" /\ workers'[j] # "callback")
                => /\ jobs' = jobs
                   /\ UNCHANGED <<active_jobs, completed_jobs, failed_jobs>>]_vars

\* the callback of a Completed job was answered with a non-2xx status or
\* could not be delivered, and the job is still Completed
C28_Witness ==
    \E j \in NodeJobIds :
        /\ callback_result[j] \in {"non2xx", "exception"}
        /\ workers[j] = "done"
        /\ jobs[j].status = "completed"
        /\ j \in completed_jobs

\* the attempts of the current call that failed: a non-zero exit code or an
\* exception of _run_powershell_script
FailedAttempts == {i \in 1..Len(attempts) : attempts[i].how # "exit0"}

\* C29: PowerShellBridge.execute_script makes at most max_retries + 1
\* attempts; as long as every attempt so far has failed and fewer than
\* max_retries + 1 were made it goes on to another attempt; when it has
\* returned, the last attempt is the only one that succeeded and the value
\* returned is that attempt's output, parsed; when it has raised, all
\* max_retries + 1 attempts have failed and it raised the error of the last.
C29_RetryUntilSuccess ==
    /\ Len(attempts) <= bridge_max_retries + 1
    /\ script_pc \in {"running", "sleeping"} =>
          /\ FailedAttempts = 1..Len(attempts)
          /\ Len(attempts) <= bridge_max_retries
    /\ script_pc = "returned" =>
          /\ attempts # << >>
          /\ FailedAttempts = 1..(Len(attempts) - 1)
          /\ script_return = ParseOutput(attempts[Len(attempts)].text)
    /\ script_pc = "raised" =>
          /\ Len(attempts) = bridge_max_retries + 1
          /\ FailedAttempts = 1..Len(attempts)
          /\ script_return = AttemptError(attempts[Len(attempts)])

\* a call has returned the output of an attempt that followed a failed one
C29_Witness ==
    /\ script_pc = "returned"
    /\ Len(attempts) >= 2
    /\ Len(attempts) <= bridge_max_retries

\* the call that a step of _run_powershell_script_sync has added
LastCall == sync_calls'[Len(sync_calls')]

\* the runs of the subprocess that did not end with exit code 0
FailedRuns == {"exit1", "timeout", "raised"}

\* C30: after a run of a script that ended with exit code 0, every later call
\* of _run_powershell_script_sync with the same script is answered from the
\* cache, without a run, with the output of that run; a run that exits
\* non-zero, times out (TimeoutError) or raises (RuntimeError) leaves the cache
\* as it was, and the call after it, when it is for the same script, is not
\* answered from the cache either.
C30_CacheOnlySuccess ==
    [][Len(sync_calls') > Len(sync_calls) =>
          /\ \A i \in 1..Len(sync_calls) :
                (sync_calls[i].script = LastCall.script /\ sync_calls[i].how = "exit0")
                    => /\ LastCall.how = "cached"
                       /\ LastCall.result = sync_calls[i].result
          /\ LastCall.how \in FailedRuns => _script_cache' = _script_cache
          /\ LastCall.how = "timeout" => LastCall.result.kind = "TimeoutError"
          /\ LastCall.how = "raised" => LastCall.result.kind = "RuntimeError"
          /\ (/\ sync_calls # << >>
              /\ sync_calls[Len(sync_calls)].how \in FailedRuns
              /\ sync_calls[Len(sync_calls)].script = LastCall.script)
                 => LastCall.how # "cached"]_vars

\* a script was run again after a run that failed, that run ended with exit
\* code 0, and the call after it was answered from the cache
C30_Witness ==
    /\ Len(sync_calls) = 3
    /\ sync_calls[1].how \in FailedRuns
    /\ sync_calls[2].how = "exit0"
    /\ sync_calls[3].how = "cached"
    /\ sync_calls[1].script = sync_calls[2].script
    /\ sync_calls[2].script = sync_calls[3].script

\* C31: an exception raised inside an iteration of a background loop of the
\* dispatcher does not end the loop: a loop that is alive stays alive.  Of the
\* three loops only the cleanup loop has an iteration that raises (the
\* NameError of _cleanup_unhealthy_nodes); no statement of an iteration of
\* the health-check loop or of the dispatch loop raises outside a try.
C31_ExceptionDoesNotEndLoop ==
    [][cleanup_alive => cleanup_alive']_vars

\* a step in which _assign_job_to_node was called and its send failed
SendFailed == last_send' # last_send /\ ~last_send'.sent

\* C32: when the send of a job to its node fails, the step that made the
\* assignment leaves it undone: the job is Queued with assigned_node_id and
\* assigned_at null, the node's active count and its current_jobs are what
\* they were before the step, and the queue holds the job's key
\* (-priority, created_at, id), once.
C32_FailedSendUndone ==
    [][SendFailed =>
          LET j == last_send'.job
              n == last_send'.node
          IN /\ job'[j].status = "queued"
             /\ job'[j].assigned_node_id = 0
             /\ job'[j].assigned_at = "null"
             /\ job'[j].priority = job[j].priority
             /\ job'[j].created_at = job[j].created_at
             /\ node'[n].active_jobs = node[n].active_jobs
             /\ node'[n].current_jobs = node[n].current_jobs
             /\ CopiesIn(QueueKey(job[j], j), job_queue') = 1
             /\ tasks' = tasks]_vars

\* the send of a job to a node that runs another job has failed, and the job
\* waits in the queue again
C32_Witness ==
    /\ last_send.job # 0 /\ ~last_send.sent
    /\ job[last_send.job].status = "queued"
    /\ node[last_send.node].active_jobs > 0
    /\ BagIn(QueueKey(job[last_send.job], last_send.job), job_queue)

\* C33: a job becomes Assigned only in a step at whose start it is in the job
\* table with status Queued and the node it is assigned to is registered and
\* available (Healthy or Degraded, active_jobs < max_concurrent_jobs); so an
\* entry of the queue whose job is missing or not Queued leads to no
\* assignment.
C33_AssignOnlyQueuedToAvailable ==
    [][\A j \in JobIds :
          (job[j].status # "assigned" /\ job'[j].status = "assigned")
              => /\ j \in job_keys
                 /\ job[j].status = "queued"
                 /\ Registered(job'[j].assigned_node_id)
                 /\ is_available(node[job'[j].assigned_node_id])]_vars

\* a job is Assigned on a node while another job has left the job table
C33_Witness ==
    \E j \in job_keys, k \in JobIds \ job_keys :
        /\ job[j].status = "assigned"
        /\ j \in node[job[j].assigned_node_id].current_jobs
        /\ job[k].status \in Terminal

\* C34: on a node every job id is in at most one of active_jobs,
\* completed_jobs and failed_jobs; a job is in active_jobs exactly when its
\* status is Running, in completed_jobs only with status Completed and in
\* failed_jobs only with status Failed or Cancelled.
C34_NodeSetsPartition ==
    \A j \in NodeJobIds :
        /\ ~(j \in active_jobs /\ j \in completed_jobs)
        /\ ~(j \in active_jobs /\ j \in failed_jobs)
        /\ ~(j \in completed_jobs /\ j \in failed_jobs)
        /\ j \in active_jobs <=> jobs[j].status = "running"
        /\ j \in completed_jobs => jobs[j].status = "completed"
        /\ j \in failed_jobs => jobs[j].status \in {"failed", "cancelled"}

\* the three sets hold jobs: one job was cancelled by stop() and its worker
\* has ended, another has completed
C34_Witness ==
    /\ \E j \in failed_jobs : workers[j] = "raised"
    /\ completed_jobs # {}

\* C35: a job that stop() has cancelled keeps status Cancelled and its error
\* message: no later step of its worker task writes to the job.
C35_CancelledStaysCancelled ==
    [][\A j \in NodeJobIds :
          jobs[j].status = "cancelled" => jobs'[j] = jobs[j]]_vars

\* the jobs a step requeues from node n, which the step finds timed out
RequeuedFromLost(n) ==
    {j \in node[n].current_jobs :
        /\ node[n].status # "unhealthy" /\ node'[n].status = "unhealthy"
        /\ job[j].status \in {"assigned", "running"}
        /\ job'[j].status = "queued"}

\* C36: after _requeue_node_jobs(n) none of the jobs it has requeued is in
\* n.current_jobs, and n.active_jobs is smaller by their number.
C36_RequeueReleasesNode ==
    [][\A n \in NodeIds :
          RequeuedFromLost(n) # {} =>
              /\ node'[n].current_jobs \cap RequeuedFromLost(n) = {}
              /\ node'[n].active_jobs =
                     node[n].active_jobs - Cardinality(RequeuedFromLost(n))]_vars

\* the statuses of a job that is not terminal
InFlight == {"queued", "assigned", "running"}

\* C37: once stop() has returned no job of the job table is Queued, Assigned
\* or Running: stop() has cancelled them all, and from its return on no job
\* takes one of these statuses, whatever the execution tasks created before
\* stop() were doing.
C37_NothingInFlightAfterStop ==
    [][stop_pc = "done" =>
          \A j \in job_keys :
              job'[j].status \in InFlight => job[j].status \in InFlight]_vars

\* the number of entries of job j in the queue
QueueEntries(j) ==
    Cardinality({e \in BagToSet(job_queue) : e[3] = j})

\* C38: a job id occurs at most once in job_queue: the queue holds at most
\* one key with the id, and holds it once.
C38_OneQueueEntryPerJob ==
    \A j \in JobIds :
        /\ QueueEntries(j) <= 1
        /\ \A e \in BagToSet(job_queue) : e[3] = j => CopiesIn(e, job_queue) = 1

\* a job requeued from a lost node waits in the queue under one entry while
\* the lost node still lists it
C38_Witness ==
    \E j \in job_keys, n \in NodeIds :
        /\ job[j].status = "queued"
        /\ QueueEntries(j) = 1
        /\ node[n].status = "unhealthy"
        /\ j \in node[n].current_jobs

C40_EndedCallsLeaveNothingPending ==
    /\ \A c, d \in CommandIds :
          (c # d /\ command_id[c] # 0) => command_id[c] # command_id[d]
    /\ \A c \in CommandIds :
          (command_pc[c] \in Ended /\ command_id[c] # 0)
              => command_id[c] \notin pending_requests

====
